---------------------------- MODULE Spec2Model ----------------------------
(***************************************************************************)
(* Long-audio segmentation and stitching pipeline of                       *)
(* src/whisper_transcriber.py (class WhisperTranscriber):                   *)
(*   split_audio            cuts a recording into chunk files               *)
(*   transcribe_audio       one recognizer call plus script normalization   *)
(*   transcribe_long_audio  split, per-chunk recognition, timestamp merge   *)
(*                                                                         *)
(*   save_transcript_to_markdown  renders a transcript as a document       *)
(*                                                                         *)
(* Durations of audio are integers in one abstract unit (the source uses   *)
(* milliseconds); segment timestamps are integers counting ticks of        *)
(* 1/TicksPerSecond second (the source uses float seconds).  The code      *)
(* never mixes the two.  A text is a sequence of one-character strings.    *)
(***************************************************************************)
EXTENDS Integers, Sequences, FiniteSets, TLC

\* ------------------------------------------------------------------ bounds
\* split_audio alone (SpecSplit): chunk_length_ms in 1..MaxL, clip in 1..MaxDur
MaxL == 10
MaxDur == 12
\* pieces split_on_silence may return
MaxSilenceChunks == 2
\* transcribe_long_audio (Spec): the chunk length it always passes, scaled to
\* PipelineL units, and the longest clip
PipelineL == 1
PipelineMaxDur == 3
\* recognizer output per chunk: at most MaxSegs segments, times in 0..MaxT
MaxSegs == 2
MaxT == 1
\* resolution of a timestamp: ticks per second
TicksPerSecond == 2
\* save_transcript_to_markdown alone (SpecRender): segments per transcript
MaxRenderSegs == 2

\* split_audio's export loop alone (SpecNaming): the clip, in units of which
\* the chunk length is PipelineL
NamingClip == 1000

\* ------------------------------------------------------ program constants
\* the 3 of the format specification 03d in the chunk file name
OrdinalWidth == 3
\* max_time = 10 * 3600, the cap on every rendered time, in seconds
max_time == 36000
\* the 3600 and 60 of the time arithmetic
SecondsPerHour == 3600
SecondsPerMinute == 60

VARIABLES
    total_length_ms,   \* len(audio) of the input recording
    chunk_length_ms,   \* split_audio's chunk_length_ms
    to_simplified,     \* self.to_simplified
    language,          \* the language hint of the run
    pc,                \* position in transcribe_long_audio
    silence,           \* what split_on_silence returned inside split_audio; <<>>
                       \* before the call and once the caller has moved on
    exported,          \* chunk files written by chunk.export, in order
    chunk_files,       \* split_audio's return value
    i,                 \* 1-based index of the chunk being processed
    result,            \* the current chunk's transcript; NoTranscript once the
                       \* iteration that bound it is over (it is never read again)
    md_written,        \* per-chunk documents written by save_transcript_to_markdown
    all_segments,      \* all_segments
    total_duration,    \* total_duration, the running offset
    output,            \* transcribe_long_audio's return value
    outcomes           \* ghost: per processed chunk, what happened to it

vars == <<total_length_ms, chunk_length_ms, to_simplified, language, pc, silence,
          exported, chunk_files, i, result, md_written, all_segments,
          total_duration, output, outcomes>>

\* ------------------------------------------------------------ small helpers
Last(s) == s[Len(s)]

Min(a, b) == IF a <= b THEN a ELSE b

\* the input recording's path, and the path of the k-th exported chunk
audio_path == [dir |-> "input", ordinal |-> 0]

\* str(d) for one decimal digit
DigitChar(d) == <<"0", "1", "2", "3", "4", "5", "6", "7", "8", "9">>[d + 1]

\* f"{n}" for an integer n >= 0
RECURSIVE Decimal(_)
Decimal(n) ==
    IF n < 10 THEN <<DigitChar(n)>>
    ELSE Decimal(n \div 10) \o <<DigitChar(n % 10)>>

\* f"{n:0{width}d}": at least width digits, zero-filled on the left
ZeroPad(n, width) ==
    LET digits == Decimal(n)
    IN  [k \in 1..(width - Len(digits)) |-> "0"] \o digits

\* f"{base_name}_{i+1:03d}.mp3" for the k-th chunk (k = i + 1) of a recording
\* whose base name is "x"
ChunkName(k) ==
    <<"x", "_">> \o ZeroPad(k, OrdinalWidth) \o <<".", "m", "p", "3">>

ChunkPath(k) == [dir |-> "output", ordinal |-> k, name |-> ChunkName(k)]

NoTranscript == [text |-> <<>>, segments |-> <<>>, language |-> "none"]


\* ------------------------------------------------------------- split_audio
\* mutant: the slice's end is not clamped to the recording's length
AudioSlice_Unclamped(total, from, L) ==
    [start |-> from, len |-> L]

\* audio[from:from+L] of a recording of length total: pydub clamps the end
AudioSlice(total, from, L) ==
    [start |-> from, len |-> Min(from + L, total) - from]

\* range(from, stop, step) as a sequence
RECURSIVE Range(_, _, _)
Range(from, stop, step) ==
    IF from >= stop THEN <<>> ELSE <<from>> \o Range(from + step, stop, step)

\* [audio[i:i+chunk_length_ms] for i in range(0, total_length_ms, chunk_length_ms)]
FixedLengthChunks(total, L) ==
    LET starts == Range(0, total, L)
    IN  [k \in 1..Len(starts) |-> AudioSlice(total, starts[k], L)]

\* mutant: < in place of <=
NoSplitNeeded_Strict(total, L) == total < L

\* total_length_ms <= chunk_length_ms: return the original file
NoSplitNeeded(total, L) == total <= L

\* mutant: only an empty result triggers the fallback
NeedsFallback_EmptyOnly(chunks, L) == chunks = <<>>

\* not chunks or max(len(chunk) for chunk in chunks) > chunk_length_ms
NeedsFallback(chunks, L) ==
    \/ chunks = <<>>
    \/ \E k \in 1..Len(chunks) :
           /\ chunks[k].len > L
           /\ \A j \in 1..Len(chunks) : chunks[j].len <= chunks[k].len

\* what pydub's split_on_silence may return for a recording of length total:
\* at most n non-empty pieces of it, in order, not overlapping
RECURSIVE SilencePieces(_, _, _)
SilencePieces(from, total, n) ==
    {<<>>} \cup
    (IF n = 0 THEN {}
     ELSE UNION { UNION { { <<[start |-> s, len |-> l]>> \o rest :
                              rest \in SilencePieces(s + l, total, n - 1) } :
                          l \in 1..(total - s) } :
                  s \in from..(total - 1) })

\* mutant: the silence-aware result is never used
ChosenChunks_AlwaysFixed(total, L, sil) == FixedLengthChunks(total, L)

\* the chunks split_audio keeps once the recording needs splitting
ChosenChunks(total, L, sil) ==
    IF NeedsFallback(sil, L) THEN FixedLengthChunks(total, L) ELSE sil

\* the chunk files the export loop writes for chunks 1..upto
ExportChunks(chunks, upto) ==
    [k \in 1..upto |-> [path |-> ChunkPath(k), start |-> chunks[k].start,
                        len |-> chunks[k].len]]

\* split_audio returning normally
SplitAudio ==
    /\ pc = "split"
    /\ \E sil \in (IF NoSplitNeeded(total_length_ms, chunk_length_ms)
                   THEN {<<>>}
                   ELSE SilencePieces(0, total_length_ms, MaxSilenceChunks)) :
        /\ silence' = sil
        /\ IF NoSplitNeeded(total_length_ms, chunk_length_ms)
           THEN /\ chunk_files' = <<audio_path>>
                /\ exported' = <<>>
           ELSE LET chunks == ChosenChunks(total_length_ms, chunk_length_ms, sil)
                IN  /\ exported' = ExportChunks(chunks, Len(chunks))
                    /\ chunk_files' = [k \in 1..Len(chunks) |-> ChunkPath(k)]
    /\ pc' = "chunks"
    /\ UNCHANGED <<total_length_ms, chunk_length_ms, to_simplified, language, i,
                   result, md_written, all_segments, total_duration, output,
                   outcomes>>

\* split_audio raising: the recording cannot be loaded (nothing written), or
\* chunk.export fails after some chunk files were written; the except clause
\* logs and re-raises, and transcribe_long_audio re-raises in turn
SplitAudioRaise ==
    /\ pc = "split"
    /\ \/ /\ silence' = <<>>
          /\ exported' = <<>>
       \/ /\ ~NoSplitNeeded(total_length_ms, chunk_length_ms)
          /\ \E sil \in SilencePieces(0, total_length_ms, MaxSilenceChunks) :
               LET chunks == ChosenChunks(total_length_ms, chunk_length_ms, sil)
               IN  \E written \in 0..(Len(chunks) - 1) :
                     /\ silence' = sil
                     /\ exported' = ExportChunks(chunks, written)
    /\ pc' = "raised"
    /\ UNCHANGED <<total_length_ms, chunk_length_ms, to_simplified, language,
                   chunk_files, i, result, md_written, all_segments,
                   total_duration, output, outcomes>>

\* ------------------------------------------------------- transcribe_audio
\* segment texts the recognizer may produce; "B" stands for a traditional
\* character, which OpenCC's t2s conversion rewrites to "b"
Texts == {<<"a">>, <<"B">>}

Segs == {[start |-> s, end |-> e, text |-> t] :
            s \in 0..MaxT, e \in 0..MaxT, t \in Texts}

\* the recognizer's segments for one clip: relative to the clip's own start,
\* start <= end, in non-decreasing order of start and of end
WellOrdered(segs) ==
    /\ \A k \in 1..Len(segs) : 0 <= segs[k].start /\ segs[k].start <= segs[k].end
    /\ \A k \in 1..(Len(segs) - 1) :
           /\ segs[k].start <= segs[k + 1].start
           /\ segs[k].end <= segs[k + 1].end

RecogSegments ==
    {segs \in UNION {[1..n -> Segs] : n \in 0..MaxSegs} : WellOrdered(segs)}

\* whisper's result["text"]: the segments' texts decoded in one piece
RECURSIVE ConcatTexts(_)
ConcatTexts(segs) ==
    IF segs = <<>> THEN <<>> ELSE Head(segs).text \o ConcatTexts(Tail(segs))

\* self.model.transcribe(audio_path, language=language, ...)
ModelTranscribe(segs, lang) ==
    [text |-> ConcatTexts(segs), segments |-> segs, language |-> lang]

\* OpenCC('t2s').convert on one character
T2S(c) == IF c = "B" THEN "b" ELSE c

\* convert_to_simplified
convert_to_simplified(simp, text) ==
    IF simp THEN [k \in 1..Len(text) |-> T2S(text[k])] ELSE text

\* mutant: the conversion is applied whatever the language hint
transcribe_audio_AnyLanguage(simp, lang, raw) ==
    [raw EXCEPT
       !.text = convert_to_simplified(simp, raw.text),
       !.segments = [k \in 1..Len(raw.segments) |->
                       [raw.segments[k] EXCEPT
                          !.text = convert_to_simplified(simp, raw.segments[k].text)]]]

\* transcribe_audio's processing of the recognizer's result
transcribe_audio(simp, lang, raw) ==
    IF simp /\ lang = "zh"
    THEN [raw EXCEPT
            !.text = convert_to_simplified(simp, raw.text),
            !.segments = [k \in 1..Len(raw.segments) |->
                            [raw.segments[k] EXCEPT
                               !.text = convert_to_simplified(simp, raw.segments[k].text)]]]
    ELSE raw

\* --------------------------------------------- save_transcript_to_markdown
\* f"{n:02d}"
Pad2(n) == ZeroPad(n, 2)

\* str.strip() on a text whose only whitespace is the blank
RECURSIVE LStrip(_)
LStrip(text) ==
    IF text # <<>> /\ Head(text) = " " THEN LStrip(Tail(text)) ELSE text

RECURSIVE RStrip(_)
RStrip(text) ==
    IF text # <<>> /\ Last(text) = " "
    THEN RStrip(SubSeq(text, 1, Len(text) - 1))
    ELSE text

Strip(text) == RStrip(LStrip(text))

\* mutant: the time is rendered without the cap
ClampTime_None(t) == t

\* min(t, max_time), t in ticks
ClampTime(t) == Min(t, max_time * TicksPerSecond)

\* int(d / 3600), int((d % 3600) / 60), int(d % 60) and int(d / 60), d in ticks
HoursOf(d) == d \div (SecondsPerHour * TicksPerSecond)

MinutesOf(d) ==
    (d % (SecondsPerHour * TicksPerSecond)) \div (SecondsPerMinute * TicksPerSecond)

SecondsOf(d) == (d % (SecondsPerMinute * TicksPerSecond)) \div TicksPerSecond

WholeMinutesOf(d) == d \div (SecondsPerMinute * TicksPerSecond)

\* lines 296-306: the duration string; "h", "m" and "s" stand for the unit
\* words the source writes after the hours, the minutes and the seconds
FormatDuration(end) ==
    LET duration == ClampTime(end)
        hours == HoursOf(duration)
        minutes == MinutesOf(duration)
        seconds == SecondsOf(duration)
    IN  IF hours > 0
        THEN Decimal(hours) \o <<"h">> \o Decimal(minutes) \o <<"m">>
                 \o Decimal(seconds) \o <<"s">>
        ELSE Decimal(minutes) \o <<"m">> \o Decimal(seconds) \o <<"s">>

\* mutant: the form follows from the start alone
UseLongForm_StartOnly(start_time, end_time) ==
    start_time >= SecondsPerHour * TicksPerSecond

\* line 330: start_time >= 3600 or end_time >= 3600, on the clamped times
UseLongForm(start_time, end_time) ==
    \/ start_time >= SecondsPerHour * TicksPerSecond
    \/ end_time >= SecondsPerHour * TicksPerSecond

\* lines 331-342: one endpoint in the form line 330 chose
FormatTimestamp(t, long) ==
    IF long
    THEN Pad2(HoursOf(t)) \o <<":">> \o Pad2(MinutesOf(t)) \o <<":">>
             \o Pad2(SecondsOf(t))
    ELSE Pad2(WholeMinutesOf(t)) \o <<":">> \o Pad2(SecondsOf(t))

\* lines 320-344: the line written for one segment
SegmentLine(segment) ==
    LET start_time == ClampTime(segment.start)
        end_time == ClampTime(segment.end)
        long == UseLongForm(start_time, end_time)
    IN  <<"*", "*", "[">> \o FormatTimestamp(start_time, long) \o <<"-">>
            \o FormatTimestamp(end_time, long) \o <<"]", "*", "*", " ">>
            \o Strip(segment.text)

\* lines 288-344: what the document holds; the duration line and the segment
\* lines are written only when there are segments
RenderMarkdown(transcript) ==
    [language |-> transcript.language,
     duration |-> IF transcript.segments # <<>>
                  THEN FormatDuration(Last(transcript.segments).end)
                  ELSE <<>>,
     text |-> Strip(transcript.text),
     lines |-> [k \in 1..Len(transcript.segments) |->
                   SegmentLine(transcript.segments[k])]]

\* the file save_transcript_to_markdown leaves at output_path
Document(output_path, transcript) ==
    [path |-> output_path, transcript |-> transcript,
     document |-> RenderMarkdown(transcript)]

\* ------------------------------------------------- transcribe_long_audio
\* mutant: the single pass-through chunk goes through the merge loop too
IsPassThrough_Never(files) == FALSE

\* len(chunk_files) == 1 and chunk_files[0] == audio_path
IsPassThrough(files) == Len(files) = 1 /\ files[1] = audio_path

\* mutant: the offset is not added
AdjustTimestamps_NoShift(segs, offset) == segs

\* segment["start"] += total_duration; segment["end"] += total_duration
AdjustTimestamps(segs, offset) ==
    [k \in 1..Len(segs) |->
        [segs[k] EXCEPT !.start = @ + offset, !.end = @ + offset]]

\* mutant: the offset never advances
AdvanceOffset_Stuck(offset, segs) == offset

\* total_duration += result["segments"][-1]["end"] if result["segments"] else 0
\* (segs are result["segments"] as they are at that line: already adjusted)
AdvanceOffset(offset, segs) ==
    offset + (IF segs # <<>> THEN Last(segs).end ELSE 0)

\* mutant: "".join in place of " ".join
JoinTexts_NoSeparator(segs) == ConcatTexts(segs)

\* " ".join(segment["text"] for segment in segs)
RECURSIVE JoinTexts(_)
JoinTexts(segs) ==
    IF segs = <<>> THEN <<>>
    ELSE IF Len(segs) = 1 THEN segs[1].text
    ELSE segs[1].text \o <<" ">> \o JoinTexts(Tail(segs))

\* os.path.splitext(chunk_path)[0] + '.md'
MdPath(path) == [dir |-> path.dir, ordinal |-> path.ordinal, ext |-> "md"]

\* ghost record of one chunk's handling: whether it was merged, the stage that
\* ended it, and the transcript transcribe_audio returned for it
Outcome(ok, stage, transcript) ==
    [ok |-> ok, stage |-> stage, transcript |-> transcript]

Skipped(stage) == Outcome(FALSE, stage, NoTranscript)

\* line 235: the single pass-through chunk is transcribed directly and returned
TranscribeDirectReturn ==
    /\ pc = "chunks"
    /\ IsPassThrough(chunk_files)
    /\ \E segs \in RecogSegments :
         LET r == transcribe_audio(to_simplified, language,
                                   ModelTranscribe(segs, language))
         IN  /\ output' = r
             /\ outcomes' = <<Outcome(TRUE, "direct", r)>>
    /\ pc' = "done"
    /\ silence' = <<>>
    /\ UNCHANGED <<total_length_ms, chunk_length_ms, to_simplified, language,
                   exported, chunk_files, i, result, md_written,
                   all_segments, total_duration>>

\* line 235 when the recognizer fails: transcribe_audio re-raises, and so does
\* the outer except clause of transcribe_long_audio
TranscribeDirectRaise ==
    /\ pc = "chunks"
    /\ IsPassThrough(chunk_files)
    /\ outcomes' = <<Skipped("direct")>>
    /\ pc' = "raised"
    /\ silence' = <<>>
    /\ UNCHANGED <<total_length_ms, chunk_length_ms, to_simplified, language,
                   exported, chunk_files, i, result, md_written,
                   all_segments, total_duration, output>>

\* lines 238-241: all_segments = [], total_duration = 0.0, enter the loop
StartLoop ==
    /\ pc = "chunks"
    /\ ~IsPassThrough(chunk_files)
    /\ all_segments' = <<>>
    /\ total_duration' = 0
    /\ i' = 1
    /\ pc' = "loop"
    /\ silence' = <<>>
    /\ UNCHANGED <<total_length_ms, chunk_length_ms, to_simplified, language,
                   exported, chunk_files, result, md_written, output,
                   outcomes>>

\* line 244 returning: result = self.transcribe_audio(chunk_path, language)
RecognizeReturn ==
    /\ pc = "loop"
    /\ i <= Len(chunk_files)
    /\ \E segs \in RecogSegments :
         result' = transcribe_audio(to_simplified, language,
                                    ModelTranscribe(segs, language))
    /\ pc' = "save"
    /\ UNCHANGED <<total_length_ms, chunk_length_ms, to_simplified, language,
                   silence, exported, chunk_files, i, md_written, all_segments,
                   total_duration, output, outcomes>>

\* mutant: a chunk's recognition failure aborts the run
RecognizeRaise_Abort ==
    /\ pc = "loop"
    /\ i <= Len(chunk_files)
    /\ outcomes' = Append(outcomes, Skipped("recognize"))
    /\ pc' = "raised"
    /\ UNCHANGED <<total_length_ms, chunk_length_ms, to_simplified, language, i,
                   silence, exported, chunk_files, result, md_written,
                   all_segments, total_duration, output>>

\* line 244 raising: caught at line 259, logged, next chunk
RecognizeRaise ==
    /\ pc = "loop"
    /\ i <= Len(chunk_files)
    /\ outcomes' = Append(outcomes, Skipped("recognize"))
    /\ i' = i + 1
    /\ UNCHANGED <<total_length_ms, chunk_length_ms, to_simplified, language, pc,
                   silence, exported, chunk_files, result, md_written,
                   all_segments, total_duration, output>>

\* mutant: the chunk's document is written after its segments were shifted
SaveChunkMd_AfterShift ==
    /\ pc = "save"
    /\ md_written' =
          Append(md_written,
                 Document(MdPath(chunk_files[i]),
                          [result EXCEPT
                             !.segments = AdjustTimestamps(@, total_duration)]))
    /\ pc' = "adjust"
    /\ UNCHANGED <<total_length_ms, chunk_length_ms, to_simplified, language,
                   silence, exported, chunk_files, i, result, all_segments,
                   total_duration, output, outcomes>>

\* lines 247-248 returning: the chunk's own document is written
SaveChunkMd ==
    /\ pc = "save"
    /\ md_written' = Append(md_written, Document(MdPath(chunk_files[i]), result))
    /\ pc' = "adjust"
    /\ UNCHANGED <<total_length_ms, chunk_length_ms, to_simplified, language,
                   silence, exported, chunk_files, i, result, all_segments,
                   total_duration, output, outcomes>>

\* lines 247-248 raising (an I/O error): caught at line 259, logged, next chunk
SaveChunkMdRaise ==
    /\ pc = "save"
    /\ outcomes' = Append(outcomes, Skipped("save"))
    /\ i' = i + 1
    /\ pc' = "loop"
    /\ result' = NoTranscript
    /\ UNCHANGED <<total_length_ms, chunk_length_ms, to_simplified, language,
                   silence, exported, chunk_files, md_written,
                   all_segments, total_duration, output>>

\* mutant: the loop moves on by two chunks after a merge
MergeChunk_SkipsNext ==
    /\ pc = "adjust"
    /\ LET adjusted == AdjustTimestamps(result.segments, total_duration)
       IN  /\ all_segments' = all_segments \o adjusted
           /\ total_duration' = AdvanceOffset(total_duration, adjusted)
           /\ outcomes' = Append(outcomes, Outcome(TRUE, "merged", result))
    /\ result' = NoTranscript
    /\ i' = i + 2
    /\ pc' = "loop"
    /\ UNCHANGED <<total_length_ms, chunk_length_ms, to_simplified, language,
                   silence, exported, chunk_files, md_written, output>>

\* lines 252-257: shift the chunk's segments in place, append them, advance
MergeChunk ==
    /\ pc = "adjust"
    /\ LET adjusted == AdjustTimestamps(result.segments, total_duration)
       IN  /\ all_segments' = all_segments \o adjusted
           /\ total_duration' = AdvanceOffset(total_duration, adjusted)
           /\ outcomes' = Append(outcomes, Outcome(TRUE, "merged", result))
    /\ result' = NoTranscript
    /\ i' = i + 1
    /\ pc' = "loop"
    /\ UNCHANGED <<total_length_ms, chunk_length_ms, to_simplified, language,
                   silence, exported, chunk_files, md_written, output>>

\* mutant: a run that kept no segment raises instead of returning
ReturnMerged_RaisesOnEmpty ==
    /\ pc = "loop"
    /\ i > Len(chunk_files)
    /\ IF all_segments = <<>>
       THEN /\ pc' = "raised"
            /\ output' = output
       ELSE /\ pc' = "done"
            /\ output' = [text |-> JoinTexts(all_segments),
                          segments |-> all_segments, language |-> language]
    /\ UNCHANGED <<total_length_ms, chunk_length_ms, to_simplified, language,
                   silence, exported, chunk_files, i, result, md_written,
                   all_segments, total_duration, outcomes>>

\* lines 263-271: the merged result
ReturnMerged ==
    /\ pc = "loop"
    /\ i > Len(chunk_files)
    /\ output' = [text |-> JoinTexts(all_segments), segments |-> all_segments,
                  language |-> language]
    /\ pc' = "done"
    /\ UNCHANGED <<total_length_ms, chunk_length_ms, to_simplified, language,
                   silence, exported, chunk_files, i, result, md_written,
                   all_segments, total_duration, outcomes>>

\* ------------------------------------------------------------------- Init
InitWith(Ls, Ds, Langs, Simps) ==
    /\ chunk_length_ms \in Ls
    /\ total_length_ms \in Ds
    /\ to_simplified \in Simps
    /\ language \in Langs
    /\ pc = "split"
    /\ silence = <<>>
    /\ exported = <<>>
    /\ chunk_files = <<>>
    /\ i = 0
    /\ result = NoTranscript
    /\ md_written = <<>>
    /\ all_segments = <<>>
    /\ total_duration = 0
    /\ output = NoTranscript
    /\ outcomes = <<>>

\* split_audio called on its own, for every chunk length and clip length
InitSplit == InitWith(1..MaxL, 1..MaxDur, {"zh"}, {TRUE})

NextSplit == SplitAudio \/ SplitAudioRaise

SpecSplit == InitSplit /\ [][NextSplit]_vars


\* transcribe_long_audio: split_audio is always called with its default chunk
\* length (here PipelineL units)
Init == InitWith({PipelineL}, 1..PipelineMaxDur, {"zh", "en"}, BOOLEAN)

Next ==
    \/ SplitAudio
    \/ SplitAudioRaise
    \/ TranscribeDirectReturn
    \/ TranscribeDirectRaise
    \/ StartLoop
    \/ RecognizeReturn
    \/ RecognizeRaise
    \/ SaveChunkMd
    \/ SaveChunkMdRaise
    \/ MergeChunk
    \/ ReturnMerged

Spec == Init /\ [][Next]_vars


\* save_transcript_to_markdown called on its own (main.py line 125), for
\* transcripts whose times sit on and around the minute, the hour and the cap
RenderSeconds == {59, 3599, 3600, 3601, 36000, 40000}

RenderTimes ==
    {s * TicksPerSecond + f : s \in RenderSeconds, f \in 0..(TicksPerSecond - 1)}

RenderTexts == {<<" ", "B", " ">>}

RenderSegments ==
    UNION {[1..n -> {[start |-> s, end |-> e, text |-> t] :
                        s \in RenderTimes, e \in RenderTimes, t \in RenderTexts}] :
           n \in 0..MaxRenderSegs}

\* main.py line 124: the document's path
md_path == [dir |-> "output", ordinal |-> 0, ext |-> "md"]

\* lines 285-346 returning: the document is written
SaveTranscript ==
    /\ pc = "save_md"
    /\ md_written' = Append(md_written, Document(md_path, output))
    /\ pc' = "saved"
    /\ UNCHANGED <<total_length_ms, chunk_length_ms, to_simplified, language,
                   silence, exported, chunk_files, i, result, all_segments,
                   total_duration, output, outcomes>>

\* lines 348-350: an I/O error is logged and raised again
SaveTranscriptRaise ==
    /\ pc = "save_md"
    /\ pc' = "raised"
    /\ UNCHANGED <<total_length_ms, chunk_length_ms, to_simplified, language,
                   silence, exported, chunk_files, i, result, md_written,
                   all_segments, total_duration, output, outcomes>>

InitRender ==
    /\ chunk_length_ms = PipelineL
    /\ total_length_ms = 1
    /\ to_simplified = FALSE
    /\ language = "zh"
    /\ pc = "save_md"
    /\ silence = <<>>
    /\ exported = <<>>
    /\ chunk_files = <<>>
    /\ i = 0
    /\ result = NoTranscript
    /\ md_written = <<>>
    /\ all_segments = <<>>
    /\ total_duration = 0
    /\ output \in {ModelTranscribe(segs, language) : segs \in RenderSegments}
    /\ outcomes = <<>>

NextRender == SaveTranscript \/ SaveTranscriptRaise

SpecRender == InitRender /\ [][NextRender]_vars


\* transcribe_audio called on its own (test_transcribe_all.py line 56), for
\* every setting of to_simplified and three language hints
Languages == {"zh", "en", "ja"}

\* lines 109-114 returning: result holds the recognizer's transcript
ModelTranscribeReturn ==
    /\ pc = "transcribe"
    /\ \E segs \in RecogSegments : result' = ModelTranscribe(segs, language)
    /\ pc' = "normalize"
    /\ UNCHANGED <<total_length_ms, chunk_length_ms, to_simplified, language,
                   silence, exported, chunk_files, i, md_written, all_segments,
                   total_duration, output, outcomes>>

\* lines 109-114 raising: logged and raised again at lines 130-132
ModelTranscribeRaise ==
    /\ pc = "transcribe"
    /\ pc' = "raised"
    /\ UNCHANGED <<total_length_ms, chunk_length_ms, to_simplified, language,
                   silence, exported, chunk_files, i, result, md_written,
                   all_segments, total_duration, output, outcomes>>

\* lines 116-128: result is converted in place when asked for, and returned
NormalizeAndReturn ==
    /\ pc = "normalize"
    /\ result' = transcribe_audio(to_simplified, language, result)
    /\ output' = result'
    /\ pc' = "returned"
    /\ UNCHANGED <<total_length_ms, chunk_length_ms, to_simplified, language,
                   silence, exported, chunk_files, i, md_written, all_segments,
                   total_duration, outcomes>>

InitTranscribe ==
    /\ chunk_length_ms = PipelineL
    /\ total_length_ms = 1
    /\ to_simplified \in BOOLEAN
    /\ language \in Languages
    /\ pc = "transcribe"
    /\ silence = <<>>
    /\ exported = <<>>
    /\ chunk_files = <<>>
    /\ i = 0
    /\ result = NoTranscript
    /\ md_written = <<>>
    /\ all_segments = <<>>
    /\ total_duration = 0
    /\ output = NoTranscript
    /\ outcomes = <<>>

NextTranscribe == ModelTranscribeReturn \/ ModelTranscribeRaise \/ NormalizeAndReturn

SpecTranscribe == InitTranscribe /\ [][NextTranscribe]_vars


\* split_audio's export loop step by step, for a recording NamingClip units
\* long in which split_on_silence finds no pause
\* lines 160-186: the recording is loaded and cut at fixed length
BeginExport ==
    /\ pc = "split"
    /\ ~NoSplitNeeded(total_length_ms, chunk_length_ms)
    /\ silence' = <<>>
    /\ NeedsFallback(silence', chunk_length_ms)
    /\ pc' = "export"
    /\ UNCHANGED <<total_length_ms, chunk_length_ms, to_simplified, language,
                   exported, chunk_files, i, result, md_written, all_segments,
                   total_duration, output, outcomes>>

\* lines 190-194, one iteration: the next chunk of line 186 is named, written
\* and appended to chunk_files
ExportChunk ==
    /\ pc = "export"
    /\ Len(exported) * chunk_length_ms < total_length_ms
    /\ LET k == Len(exported) + 1
           chunk == AudioSlice(total_length_ms, (k - 1) * chunk_length_ms,
                               chunk_length_ms)
       IN  /\ exported' = Append(exported, [path |-> ChunkPath(k),
                                            start |-> chunk.start,
                                            len |-> chunk.len])
           /\ chunk_files' = Append(chunk_files, ChunkPath(k))
    /\ UNCHANGED <<total_length_ms, chunk_length_ms, to_simplified, language, pc,
                   silence, i, result, md_written, all_segments, total_duration,
                   output, outcomes>>

\* line 193 raising: logged and raised again at lines 199-201
ExportChunkRaise ==
    /\ pc = "export"
    /\ Len(exported) * chunk_length_ms < total_length_ms
    /\ pc' = "raised"
    /\ UNCHANGED <<total_length_ms, chunk_length_ms, to_simplified, language,
                   silence, exported, chunk_files, i, result, md_written,
                   all_segments, total_duration, output, outcomes>>

\* lines 196-197: every chunk is written, chunk_files is returned
ReturnChunkFiles ==
    /\ pc = "export"
    /\ Len(exported) * chunk_length_ms >= total_length_ms
    /\ pc' = "chunks"
    /\ UNCHANGED <<total_length_ms, chunk_length_ms, to_simplified, language,
                   silence, exported, chunk_files, i, result, md_written,
                   all_segments, total_duration, output, outcomes>>

InitNaming == InitWith({PipelineL}, {NamingClip}, {"zh"}, {TRUE})

NextNaming == BeginExport \/ ExportChunk \/ ExportChunkRaise \/ ReturnChunkFiles

SpecNaming == InitNaming /\ [][NextNaming]_vars

\* ================================================================ claims
\* ------------------------------------------------ reading a document back
\* reading a rendered time back: the numbers of a string, split at every
\* character that is not a digit
IsDigit(c) == c \in {"0", "1", "2", "3", "4", "5", "6", "7", "8", "9"}

DigitValue(c) ==
    CASE c = "0" -> 0 [] c = "1" -> 1 [] c = "2" -> 2 [] c = "3" -> 3
      [] c = "4" -> 4 [] c = "5" -> 5 [] c = "6" -> 6 [] c = "7" -> 7
      [] c = "8" -> 8 [] c = "9" -> 9

\* fields(str, acc, cur, open): acc the finished numbers, cur the number
\* being read, open whether a number is being read
RECURSIVE ReadNumbers(_, _, _, _)
ReadNumbers(str, acc, cur, open) ==
    IF str = <<>> THEN (IF open THEN Append(acc, cur) ELSE acc)
    ELSE IF IsDigit(Head(str))
         THEN ReadNumbers(Tail(str), acc, cur * 10 + DigitValue(Head(str)), TRUE)
         ELSE ReadNumbers(Tail(str), IF open THEN Append(acc, cur) ELSE acc, 0, FALSE)

Numbers(str) == ReadNumbers(str, <<>>, 0, FALSE)

\* seconds a rendered time stands for: h, m, s or m, s
ReadSeconds(str) ==
    LET f == Numbers(str)
    IN  IF Len(f) = 3 THEN f[1] * 3600 + f[2] * 60 + f[3]
        ELSE f[1] * 60 + f[2]

IndexOf(str, c) == CHOOSE k \in 1..Len(str) :
                       str[k] = c /\ \A j \in 1..(k - 1) : str[j] # c

\* the two timestamps of a segment line, between "[" and "-" and "-" and "]"
StartStamp(line) == SubSeq(line, IndexOf(line, "[") + 1, IndexOf(line, "-") - 1)

EndStamp(line) == SubSeq(line, IndexOf(line, "-") + 1, IndexOf(line, "]") - 1)

\* whole seconds of a time in ticks, and the same capped at ten hours
WholeSeconds(t) == t \div TicksPerSecond

CappedSeconds(t) == IF WholeSeconds(t) >= 36000 THEN 36000 ELSE WholeSeconds(t)

TenHours == <<"1", "0", ":", "0", "0", ":", "0", "0">>

\* ---------------------------------------------------- split_audio (SpecSplit)
SplitReturned == pc = "chunks"

LongClip == total_length_ms > chunk_length_ms

\* the silence-aware result is unusable: empty, or some piece longer than L
SilenceRejected ==
    \/ silence = <<>>
    \/ \E k \in 1..Len(silence) : silence[k].len > chunk_length_ms

CeilDiv(a, b) == (a + b - 1) \div b

RECURSIVE SumLen(_)
SumLen(chunks) ==
    IF chunks = <<>> THEN 0 ELSE Head(chunks).len + SumLen(Tail(chunks))

\* the fixed-length split in closed form
FixedLayout(total, L) ==
    [k \in 1..CeilDiv(total, L) |->
        [start |-> (k - 1) * L,
         len |-> IF k * L <= total THEN L ELSE total - (k - 1) * L]]

Pieces(files) == [k \in 1..Len(files) |-> [start |-> files[k].start, len |-> files[k].len]]

\* C4: for every clip longer than L, split_audio returns a non-empty ordered
\* sequence of chunk files, one per exported chunk, each at most L long,
\* whether the silence-aware or the fixed-length path produced them.
C4_ChunksWithinLimit ==
    (SplitReturned /\ LongClip) =>
        /\ chunk_files # <<>>
        /\ Len(exported) = Len(chunk_files)
        /\ \A k \in 1..Len(exported) :
               /\ exported[k].path = chunk_files[k]
               /\ exported[k].len >= 1
               /\ exported[k].len <= chunk_length_ms

\* a silence-aware result with a piece longer than L was replaced
C4_Witness ==
    /\ SplitReturned
    /\ LongClip
    /\ Len(silence) = 2
    /\ silence[2].len > chunk_length_ms
    /\ Len(exported) >= 2

\* C5: when the fixed-length fallback splits a clip of length D > L, there are
\* ceil(D / L) chunks, chunk k starts at (k-1)*L, every chunk but the last is
\* exactly L long, the last is D - (n-1)*L > 0 long, and the chunks are
\* contiguous and sum to D.
C5_FixedLengthLayout ==
    (SplitReturned /\ LongClip /\ SilenceRejected) =>
        LET n == Len(exported)
            D == total_length_ms
            L == chunk_length_ms
        IN  /\ n = CeilDiv(D, L)
            /\ \A k \in 1..n : exported[k].start = (k - 1) * L
            /\ \A k \in 1..(n - 1) : exported[k].len = L
            /\ exported[n].len = D - (n - 1) * L
            /\ exported[n].len > 0
            /\ \A k \in 1..(n - 1) :
                   exported[k + 1].start = exported[k].start + exported[k].len
            /\ SumLen(exported) = D

\* three fixed-length chunks, the last one shorter than L
C5_Witness ==
    /\ SplitReturned
    /\ LongClip
    /\ SilenceRejected
    /\ Len(exported) = 3
    /\ exported[3].len < chunk_length_ms

\* C6: for a clip longer than L, a silence-aware result that is empty or has a
\* piece longer than L is discarded and the chunks are exactly the fixed-length
\* split; otherwise the silence-aware pieces are the chunks, unchanged.  One
\* 12-unit piece with L = 10 yields two chunks of 10 and 2.
C6_FallbackTrigger ==
    (SplitReturned /\ LongClip) =>
        /\ Pieces(exported) =
              (IF SilenceRejected
               THEN FixedLayout(total_length_ms, chunk_length_ms)
               ELSE silence)
        /\ (total_length_ms = 12 /\ chunk_length_ms = 10
              /\ silence = <<[start |-> 0, len |-> 12]>>)
           => Pieces(exported) = <<[start |-> 0, len |-> 10], [start |-> 10, len |-> 2]>>

\* the 12-against-10 scenario
C6_Witness ==
    /\ SplitReturned
    /\ total_length_ms = 12
    /\ chunk_length_ms = 10
    /\ silence = <<[start |-> 0, len |-> 12]>>
    /\ Len(exported) = 2

\* C7: a clip no longer than L (exactly L included) comes back as exactly one
\* chunk, the input file itself, and no chunk file is written.
C7_PassThrough ==
    (SplitReturned /\ total_length_ms <= chunk_length_ms) =>
        /\ chunk_files = <<audio_path>>
        /\ exported = <<>>

\* a clip of exactly L
C7_Witness ==
    /\ SplitReturned
    /\ total_length_ms = chunk_length_ms
    /\ chunk_files = <<audio_path>>

\* ------------------------------------------- transcribe_long_audio (Spec)
MultiChunk == chunk_files # <<>> /\ chunk_files # <<audio_path>>

InLoop == pc \in {"loop", "save", "adjust", "done"} /\ MultiChunk

LastEndOf(segs) == IF segs = <<>> THEN 0 ELSE segs[Len(segs)].end

\* the sum of the chunk-relative last segment ends of the successful chunks
RECURSIVE SumLastEnds(_)
SumLastEnds(outs) ==
    IF outs = <<>> THEN 0
    ELSE SumLastEnds(SubSeq(outs, 1, Len(outs) - 1))
         + (IF outs[Len(outs)].ok
            THEN LastEndOf(outs[Len(outs)].transcript.segments) ELSE 0)

Shifted(segs, by) ==
    [k \in 1..Len(segs) |->
        [start |-> segs[k].start + by, end |-> segs[k].end + by,
         text |-> segs[k].text]]

\* the merged sequence the offset rule prescribes for the chunks handled so far
RECURSIVE MergedBySum(_)
MergedBySum(outs) ==
    IF outs = <<>> THEN <<>>
    ELSE LET before == SubSeq(outs, 1, Len(outs) - 1)
             o == outs[Len(outs)]
         IN  MergedBySum(before) \o
             (IF o.ok THEN Shifted(o.transcript.segments, SumLastEnds(before))
              ELSE <<>>)

\* C1: in a multi-chunk run the running offset equals the sum of the
\* chunk-relative last segment ends of the successful chunks handled so far,
\* and every merged segment is its chunk-relative value plus the sum over the
\* chunks before its own.
C1_OffsetIsSumOfLastEnds ==
    (InLoop /\ pc \in {"loop", "done"}) =>
        /\ total_duration = SumLastEnds(outcomes)
        /\ all_segments = MergedBySum(outcomes)

\* a chunk's handling failed: the step that records it as skipped
SkipStep ==
    /\ Len(outcomes') = Len(outcomes) + 1
    /\ ~outcomes'[Len(outcomes')].ok
    /\ MultiChunk

\* C2: a chunk whose handling fails adds no segment and leaves the running
\* offset unchanged, and the loop goes on with the next chunk until every chunk
\* has been handled; with 3 chunks of which the 2nd fails to be recognized, the
\* merged segments are chunk 1's followed by chunk 3's shifted by chunk 1's
\* last segment end.
C2_FailedChunkSkipped ==
    /\ [][SkipStep => /\ all_segments' = all_segments
                      /\ total_duration' = total_duration
                      /\ i' = i + 1
                      /\ pc' = "loop"]_vars
    /\ []((pc = "done" /\ MultiChunk) => Len(outcomes) = Len(chunk_files))
    /\ []((/\ pc = "done"
           /\ Len(chunk_files) = 3
           /\ outcomes[1].ok
           /\ ~outcomes[2].ok /\ outcomes[2].stage = "recognize"
           /\ outcomes[3].ok)
          => output.segments =
                outcomes[1].transcript.segments \o
                Shifted(outcomes[3].transcript.segments,
                        LastEndOf(outcomes[1].transcript.segments)))

\* 3 chunks, the 2nd not recognized, the 1st ending after 0, the 3rd not empty
C2_Witness ==
    /\ pc = "done"
    /\ Len(chunk_files) = 3
    /\ outcomes[1].ok /\ LastEndOf(outcomes[1].transcript.segments) > 0
    /\ ~outcomes[2].ok /\ outcomes[2].stage = "recognize"
    /\ outcomes[3].ok /\ outcomes[3].transcript.segments # <<>>
    /\ Len(output.segments) = 3

EmptyTranscript == [text |-> <<>>, segments |-> <<>>, language |-> language]

\* every recognition call of the run failed (and at least one was made)
AllRecognitionFailed ==
    /\ outcomes # <<>>
    /\ \A k \in 1..Len(outcomes) :
           ~outcomes[k].ok /\ outcomes[k].stage \in {"recognize", "direct"}

NonDecreasing(segs) ==
    \A k \in 1..(Len(segs) - 1) :
        /\ segs[k].start <= segs[k + 1].start
        /\ segs[k].end <= segs[k + 1].end

AllChunksOk == \A k \in 1..Len(outcomes) : outcomes[k].ok

RecognizerOrdered ==
    \A k \in 1..Len(outcomes) :
        LET segs == outcomes[k].transcript.segments
        IN  /\ \A j \in 1..Len(segs) : 0 <= segs[j].start /\ segs[j].start <= segs[j].end
            /\ NonDecreasing(segs)

\* C8: in a multi-chunk run where every chunk succeeds and the recognizer
\* returns per chunk segments with 0 <= start <= end in non-decreasing order,
\* the starts and the ends of the merged sequence are non-decreasing, across
\* chunk boundaries too.
C8_MergedNonDecreasing ==
    (InLoop /\ AllChunksOk /\ RecognizerOrdered) =>
        /\ NonDecreasing(all_segments)
        /\ pc = "done" => NonDecreasing(output.segments)

\* three successful chunks with two segments each, the first ending after 0
C8_Witness ==
    /\ pc = "done"
    /\ Len(chunk_files) = 3
    /\ Len(outcomes) = 3
    /\ AllChunksOk
    /\ \A k \in 1..3 : Len(outcomes[k].transcript.segments) = 2
    /\ LastEndOf(outcomes[1].transcript.segments) > 0
    /\ Len(output.segments) = 6

\* the texts of the segments of the successful chunks, in order
RECURSIVE RetainedTexts(_)
RetainedTexts(outs) ==
    IF outs = <<>> THEN <<>>
    ELSE (IF Head(outs).ok
          THEN [k \in 1..Len(Head(outs).transcript.segments) |->
                   Head(outs).transcript.segments[k].text]
          ELSE <<>>) \o RetainedTexts(Tail(outs))

\* texts joined by single spaces, built from the right
RECURSIVE SpaceJoined(_)
SpaceJoined(texts) ==
    IF texts = <<>> THEN <<>>
    ELSE LET front == SubSeq(texts, 1, Len(texts) - 1)
         IN  (IF front = <<>> THEN <<>> ELSE SpaceJoined(front) \o <<" ">>)
             \o texts[Len(texts)]

\* C9: the merged transcript's text is the single-space-joined concatenation,
\* in merged order, of exactly the texts of the segments kept from the
\* successful chunks, nothing standing in for a failed chunk, and its
\* language is the run's language hint.
C9_MergedText ==
    (pc = "done" /\ MultiChunk) =>
        /\ [k \in 1..Len(output.segments) |-> output.segments[k].text]
              = RetainedTexts(outcomes)
        /\ output.text = SpaceJoined(RetainedTexts(outcomes))
        /\ output.language = language

\* three chunks, the middle one lost, text joined from both others
C9_Witness ==
    /\ pc = "done"
    /\ Len(chunk_files) = 3
    /\ outcomes[1].ok /\ ~outcomes[2].ok /\ outcomes[3].ok
    /\ Len(outcomes[1].transcript.segments) = 2
    /\ Len(outcomes[3].transcript.segments) = 1
    /\ Len(output.text) = 5

\* C10: when segmentation returns the single pass-through chunk, the result
\* is the transcript transcribe_audio returned for the whole clip: text,
\* language and segments as they are, no offset, no re-joined text, and no
\* merge state or per-chunk document is touched.
C10_PassThroughResult ==
    (pc = "done" /\ chunk_files = <<audio_path>>) =>
        /\ Len(outcomes) = 1
        /\ outcomes[1].ok
        /\ output = outcomes[1].transcript
        /\ output.text = ConcatTexts(output.segments)
        /\ all_segments = <<>>
        /\ total_duration = 0
        /\ md_written = <<>>

\* a pass-through clip recognized as two segments, the first ending after 0
C10_Witness ==
    /\ pc = "done"
    /\ chunk_files = <<audio_path>>
    /\ Len(output.segments) = 2
    /\ output.segments[1].end > 0
    /\ Len(output.text) = 2

\* C11: in a run the only failures absorbed locally are per-chunk recognition
\* errors: every chunk the loop skipped was skipped because its recognition
\* call failed, and the run goes on past segmentation only when segmentation
\* returned its chunk files.
C11_OnlyRecognitionAbsorbed ==
    /\ MultiChunk =>
          \A k \in 1..Len(outcomes) :
              ~outcomes[k].ok => outcomes[k].stage = "recognize"
    /\ pc \in {"chunks", "loop", "save", "adjust", "done"} => chunk_files # <<>>

\* a recognition call has been issued in this run
RecognitionIssued == pc \in {"save", "adjust"} \/ outcomes # <<>>

\* every chunk file split_audio returned has been written, in order
SegmentationFinished ==
    /\ Len(exported) = Len(chunk_files)
    /\ \A k \in 1..Len(chunk_files) : exported[k].path = chunk_files[k]

\* C15: in a multi-chunk run every chunk file is written before the first
\* recognition call and none is written afterwards; the chunk being handled
\* is always the one after those already merged or skipped, so the call for
\* chunk i+1 is issued only once chunk i was merged or skipped, and the loop
\* moves from one chunk to the next only by merging or skipping it.
C15_SequentialOrder ==
    /\ []((MultiChunk /\ RecognitionIssued) => SegmentationFinished)
    /\ [][pc # "split" => exported' = exported /\ chunk_files' = chunk_files]_vars
    /\ []((MultiChunk /\ pc \in {"loop", "save", "adjust"}) =>
              /\ i = Len(outcomes) + 1
              /\ pc \in {"save", "adjust"} => i <= Len(chunk_files))
    /\ [][(MultiChunk /\ pc \in {"loop", "save", "adjust"}) =>
              \/ i' = i /\ outcomes' = outcomes
              \/ /\ i' = i + 1
                 /\ Len(outcomes') = Len(outcomes) + 1
                 /\ SubSeq(outcomes', 1, Len(outcomes)) = outcomes
                 /\ pc' = "loop"]_vars

\* three chunks handled in order: the first merged, the second skipped, the
\* third merged
C15_Witness ==
    /\ pc = "done"
    /\ Len(chunk_files) = 3
    /\ Len(exported) = 3
    /\ Len(outcomes) = 3
    /\ outcomes[1].ok /\ ~outcomes[2].ok /\ outcomes[3].ok

\* the saved document of chunk k: its path and the transcript it was given
SavedFor(k) ==
    {d \in 1..Len(md_written) : md_written[d].path.ordinal = chunk_files[k].ordinal
                                /\ md_written[d].path.dir = chunk_files[k].dir
                                /\ md_written[d].path.ext = "md"}

\* C16: in a multi-chunk run, when a chunk's segments are about to be offset
\* and appended, the chunk's own document has already been written from the
\* transcript as the recognizer returned it, so its timestamps are relative
\* to the chunk; and every merged chunk has exactly one such document.
C16_DocumentBeforeMerge ==
    MultiChunk =>
        /\ pc = "adjust" =>
              /\ md_written # <<>>
              /\ Last(md_written).transcript = result
              /\ SavedFor(i) = {Len(md_written)}
              /\ LET doc == Last(md_written).document
                 IN  /\ Len(doc.lines) = Len(result.segments)
                     /\ \A j \in 1..Len(result.segments) :
                           /\ ReadSeconds(StartStamp(doc.lines[j]))
                                 = CappedSeconds(result.segments[j].start)
                           /\ ReadSeconds(EndStamp(doc.lines[j]))
                                 = CappedSeconds(result.segments[j].end)
        /\ \A k \in 1..Len(outcomes) :
              outcomes[k].ok =>
                  /\ Cardinality(SavedFor(k)) = 1
                  /\ \A d \in SavedFor(k) :
                        md_written[d].transcript = outcomes[k].transcript

\* the second chunk was merged at an offset above 0, and its document still
\* holds the times the recognizer returned
C16_Witness ==
    /\ pc = "done"
    /\ Len(chunk_files) >= 2
    /\ Len(outcomes) >= 2
    /\ outcomes[1].ok /\ outcomes[2].ok
    /\ Len(md_written) >= 2
    /\ LastEndOf(outcomes[1].transcript.segments) > 0
    /\ outcomes[2].transcript.segments # <<>>
    /\ md_written[2].transcript = outcomes[2].transcript
    /\ output.segments[Len(outcomes[1].transcript.segments) + 1].start
          > md_written[2].transcript.segments[1].start

StrictStarts(segs) ==
    \A k \in 1..(Len(segs) - 1) : segs[k].start < segs[k + 1].start

\* the recognizer's segments of every chunk so far: start <= end, starts
\* strictly increasing
RecognizerStrict ==
    \A k \in 1..Len(outcomes) :
        LET segs == outcomes[k].transcript.segments
        IN  /\ \A j \in 1..Len(segs) : 0 <= segs[j].start /\ segs[j].start <= segs[j].end
            /\ StrictStarts(segs)

\* C17 as stated: when the recognizer returns, per chunk, segments with
\* start <= end in strictly increasing start order, the starts of the merged
\* sequence and of the returned transcript are strictly increasing, across
\* chunk boundaries too.
C17_MergedStrictlyIncreasing ==
    RecognizerStrict =>
        /\ StrictStarts(all_segments)
        /\ pc = "done" => StrictStarts(output.segments)

\* consecutive segments never go back in start, and start together only when
\* the earlier one has no length
StrictUnlessZeroLength(segs) ==
    \A k \in 1..(Len(segs) - 1) :
        \/ segs[k].start < segs[k + 1].start
        \/ segs[k].start = segs[k + 1].start /\ segs[k].start = segs[k].end

\* C17 amended: under the same assumption on the recognizer, two consecutive
\* merged segments never have decreasing start, and have equal start only
\* when the earlier one has zero length (start = end); so the starts are
\* strictly increasing whenever every segment has start < end.
C17_StrictUnlessZeroLength ==
    RecognizerStrict =>
        /\ StrictUnlessZeroLength(all_segments)
        /\ pc = "done" => StrictUnlessZeroLength(output.segments)
        /\ (\A k \in 1..Len(all_segments) :
                all_segments[k].start < all_segments[k].end)
              => StrictStarts(all_segments)

\* three merged chunks: two segments from the first, the second of zero
\* length and met by the start of the second chunk; the third chunk starts
\* strictly later
C17_Witness ==
    /\ pc = "done"
    /\ RecognizerStrict
    /\ Len(outcomes) = 3
    /\ AllChunksOk
    /\ Len(outcomes[1].transcript.segments) = 2
    /\ Len(output.segments) >= 4
    /\ output.segments[2].start = output.segments[3].start
    /\ output.segments[3].start < output.segments[4].start
    /\ output.segments[3].start < output.segments[3].end

\* ---------------------------------- save_transcript_to_markdown (SpecRender)
\* C12: every time of a document is rendered from the value capped at 36000
\* seconds: the duration line from the last segment's end, and each segment's
\* start and end each from its own value, so no rendered time exceeds
\* 10:00:00, and an end at or beyond 36000 seconds is rendered 10:00:00.
C12_RenderedTimesClamped ==
    \A d \in 1..Len(md_written) :
        LET doc == md_written[d].document
            segs == md_written[d].transcript.segments
        IN  /\ segs # <<>> =>
                  ReadSeconds(doc.duration) = CappedSeconds(Last(segs).end)
            /\ Len(doc.lines) = Len(segs)
            /\ \A k \in 1..Len(segs) :
                  /\ ReadSeconds(StartStamp(doc.lines[k])) = CappedSeconds(segs[k].start)
                  /\ ReadSeconds(EndStamp(doc.lines[k])) = CappedSeconds(segs[k].end)
                  /\ ReadSeconds(StartStamp(doc.lines[k])) <= 36000
                  /\ ReadSeconds(EndStamp(doc.lines[k])) <= 36000
                  /\ segs[k].end >= 36000 * TicksPerSecond =>
                         EndStamp(doc.lines[k]) = TenHours

\* a document whose last segment runs from 3601 s to 40000 s: the end and the
\* duration are capped, the start is not
C12_Witness ==
    /\ pc = "saved"
    /\ Len(md_written) = 1
    /\ LET segs == md_written[1].transcript.segments
           doc == md_written[1].document
       IN  /\ Len(segs) = 2
           /\ segs[2].start = 3601 * TicksPerSecond
           /\ segs[2].end = 40000 * TicksPerSecond
           /\ EndStamp(doc.lines[2]) = TenHours
           /\ StartStamp(doc.lines[2]) = <<"0", "1", ":", "0", "0", ":", "0", "1">>
           /\ doc.duration = <<"1", "0", "h", "0", "m", "0", "s">>

\* a rendered time in the form HH:MM:SS, or in the form MM:SS
IsLongStamp(str) ==
    /\ Len(str) = 8
    /\ \A k \in {1, 2, 4, 5, 7, 8} : IsDigit(str[k])
    /\ str[3] = ":" /\ str[6] = ":"

IsShortStamp(str) ==
    /\ Len(str) = 5
    /\ \A k \in {1, 2, 4, 5} : IsDigit(str[k])
    /\ str[3] = ":"

\* C13: the two timestamps of a segment line have the same form: HH:MM:SS,
\* zero-padded and truncated to whole seconds, when either capped endpoint is
\* at or beyond 3600 seconds, and MM:SS with minutes below 60 otherwise; a
\* segment from 3599 s to 3601 s is rendered 00:59:59-01:00:01.
C13_SameFormBothEndpoints ==
    \A d \in 1..Len(md_written) :
        LET doc == md_written[d].document
            segs == md_written[d].transcript.segments
        IN  \A k \in 1..Len(segs) :
                LET s == StartStamp(doc.lines[k])
                    e == EndStamp(doc.lines[k])
                IN  /\ IF \/ CappedSeconds(segs[k].start) >= 3600
                          \/ CappedSeconds(segs[k].end) >= 3600
                       THEN IsLongStamp(s) /\ IsLongStamp(e)
                       ELSE /\ IsShortStamp(s) /\ IsShortStamp(e)
                            /\ Numbers(s)[1] < 60 /\ Numbers(e)[1] < 60
                    /\ ReadSeconds(s) = CappedSeconds(segs[k].start)
                    /\ ReadSeconds(e) = CappedSeconds(segs[k].end)
                    /\ \A str \in {s, e} :
                           LET f == Numbers(str)
                           IN  /\ f[Len(f)] < 60
                               /\ f[Len(f) - 1] < 60

\* a segment from 3599 s and a fraction to 3601 s, rendered 00:59:59-01:00:01
C13_Witness ==
    /\ pc = "saved"
    /\ Len(md_written) = 1
    /\ LET segs == md_written[1].transcript.segments
           doc == md_written[1].document
       IN  /\ Len(segs) = 1
           /\ segs[1].start = 3599 * TicksPerSecond + TicksPerSecond - 1
           /\ segs[1].end = 3601 * TicksPerSecond
           /\ StartStamp(doc.lines[1]) = <<"0", "0", ":", "5", "9", ":", "5", "9">>
           /\ EndStamp(doc.lines[1]) = <<"0", "1", ":", "0", "0", ":", "0", "1">>

\* ------------------------------------------- transcribe_audio (SpecTranscribe)
\* a text with every traditional character rewritten
SimplifiedText(text) ==
    [k \in 1..Len(text) |-> IF text[k] = "B" THEN "b" ELSE text[k]]

\* a transcript with the rewrite applied to its text and every segment's text
SimplifiedTranscript(t) ==
    [text |-> SimplifiedText(t.text),
     segments |-> [k \in 1..Len(t.segments) |->
                     [start |-> t.segments[k].start, end |-> t.segments[k].end,
                      text |-> SimplifiedText(t.segments[k].text)]],
     language |-> t.language]

\* C14 as stated: with normalization enabled every successful recognition
\* result is returned with the transform applied to its text and to every
\* segment's text, for every language hint; with it disabled the result is
\* returned unchanged.
C14_NormalizedForEveryLanguage ==
    [][pc = "normalize" =>
          output' = IF to_simplified THEN SimplifiedTranscript(result) ELSE result]_vars

\* C14 amended: the transform is applied to the text and to every segment's
\* text exactly when normalization is enabled and the language hint is "zh";
\* for any other hint, and when it is disabled, the result is returned unchanged.
C14_NormalizedForChineseHint ==
    [][pc = "normalize" =>
          output' = IF to_simplified /\ language = "zh"
                    THEN SimplifiedTranscript(result)
                    ELSE result]_vars

\* a returned "zh" transcript of two segments whose traditional characters
\* were all rewritten
C14_Witness ==
    /\ pc = "returned"
    /\ to_simplified
    /\ language = "zh"
    /\ Len(output.segments) = 2
    /\ output.text = <<"b", "b">>
    /\ \A k \in 1..2 : output.segments[k].text = <<"b">>

\* ------------------------------------------------ split_audio (SpecNaming)
\* the code point of a character of a chunk file name
CharCode(c) ==
    CASE c = "." -> 46 [] c = "_" -> 95 [] c = "m" -> 109 [] c = "p" -> 112
      [] c = "x" -> 120 [] OTHER -> 48 + DigitValue(c)

\* a < b in the order of Python's str comparison
RECURSIVE LexLess(_, _)
LexLess(a, b) ==
    IF a = <<>> THEN b # <<>>
    ELSE IF b = <<>> THEN FALSE
    ELSE IF Head(a) = Head(b) THEN LexLess(Tail(a), Tail(b))
    ELSE CharCode(Head(a)) < CharCode(Head(b))

\* C18: the k-th chunk file is named <base>_<k>.mp3 with k zero-padded, every
\* name of a split has the same length, and the name of every chunk written
\* earlier sorts before the name of the chunk written last, however many
\* chunks the split has.
C18_NamesSortByOrdinal ==
    LET n == Len(exported)
    IN  n >= 1 =>
            /\ Numbers(exported[n].path.name)[1] = n
            /\ \A k \in 1..(n - 1) :
                  /\ Len(exported[k].path.name) = Len(exported[n].path.name)
                  /\ LexLess(exported[k].path.name, exported[n].path.name)

=============================================================================
